---- MODULE Spec2Model ----
(***************************************************************************)
(* Model of the PDOT retrieval pipeline:                                   *)
(*   indexar_pdot.py  the offline indexer script (one action: a whole run) *)
(*   main.py          the query service (startup_event, extraer_contexto)  *)
(* Python strings that the code converts (lower, strip) are sequences of   *)
(* one-character strings, so that the conversions are computed.            *)
(***************************************************************************)
EXTENDS Integers, Sequences, FiniteSets, TLC

VARIABLES
    dirExiste,        \* os.path.exists("db_pdot")
    store,            \* the documents persisted in the directory "db_pdot"
    idxRuns,          \* number of indexer runs executed so far
    lastRun,          \* what the last indexer run read and how it ended
    GOOGLE_API_KEY,   \* main.py module global (read once at import)
    OPENAI_API_KEY,   \* main.py module global (read once at import)
    db,               \* main.py module global
    llm,              \* main.py module global
    startup,          \* outcome of startup_event: "pending", "ok" or the exception raised
    req,              \* the last request handled by extraer_contexto
    resp,             \* its HTTP response
    traza             \* what that request did: searches, generations, locals

vars == <<dirExiste, store, idxRuns, lastRun, GOOGLE_API_KEY, OPENAI_API_KEY,
          db, llm, startup, req, resp, traza>>

idxVars == <<dirExiste, store, idxRuns, lastRun>>
svcVars == <<GOOGLE_API_KEY, OPENAI_API_KEY, db, llm, startup>>
reqVars == <<req, resp, traza>>

--------------------------------------------------------------------------
(* Bounds *)

\* indexer runs explored in one behaviour
MaxRuns == 2
\* fragments of the largest document (one more than the k of the search)
MaxFrags == 11

--------------------------------------------------------------------------
(* Python values *)

\* None, told apart from every str and every object of the model
None == "None"

\* Python truthiness of an Optional[str] that the code only tests, never
\* converts (the API keys): None and "" are falsy
Truthy(v) == v # None /\ v # ""

Whitespace == {" ", "\t", "\n"}

Mayusculas == <<"A","B","C","D","E","F","G","H","I","J","K","L","M",
                "N","O","P","Q","R","S","T","U","V","W","X","Y","Z">>
Minusculas == <<"a","b","c","d","e","f","g","h","i","j","k","l","m",
                "n","o","p","q","r","s","t","u","v","w","x","y","z">>

\* str.lower() on one character
LowerChar(c) ==
    IF \E i \in 1..Len(Mayusculas) : Mayusculas[i] = c
    THEN Minusculas[CHOOSE i \in 1..Len(Mayusculas) : Mayusculas[i] = c]
    ELSE c

\* str.lower()
Lower(s) == [i \in 1..Len(s) |-> LowerChar(s[i])]

\* str.lstrip() and str.rstrip(): drop the whitespace at one end
RECURSIVE LStrip(_)
LStrip(s) ==
    IF s = <<>> \/ Head(s) \notin Whitespace THEN s ELSE LStrip(Tail(s))

RECURSIVE RStrip(_)
RStrip(s) ==
    IF s = <<>> \/ s[Len(s)] \notin Whitespace THEN s
    ELSE RStrip(SubSeq(s, 1, Len(s) - 1))

\* str.strip(): drops the leading and the trailing whitespace, nothing inside
Strip(s) == RStrip(LStrip(s))

--------------------------------------------------------------------------
(* indexar_pdot.py *)

paltas       == <<"p","a","l","t","a","s">>
pindal       == <<"p","i","n","d","a","l">>
catamayo     == <<"c","a","t","a","m","a","y","o">>
chaguarpamba == <<"c","h","a","g","u","a","r","p","a","m","b","a">>

\* keys of MAPA_DE_PDOTS in insertion order (the order dict.items() yields)
Etiquetas == <<paltas, pindal, catamayo, chaguarpamba>>

MAPA_DE_PDOTS(etiqueta) ==
    CASE etiqueta = paltas       -> <<"P","D","O","T","_","P","a","l","t","a","s",".","p","d","f">>
      [] etiqueta = pindal       -> <<"P","D","O","T","_","P","i","n","d","a","l",".","p","d","f">>
      [] etiqueta = catamayo     -> <<"P","D","y","O","T","_","C","a","t","a","m","a","y","o",".","p","d","f">>
      [] etiqueta = chaguarpamba -> <<"P","D","y","O","T","_","C","h","a","g","u","a","r","p","a","m","b","a",".","p","d","f">>

EtiquetaSet == {Etiquetas[i] : i \in 1..Len(Etiquetas)}

\* the file names the script looks up on disk
Archivos == {Strip(MAPA_DE_PDOTS(e)) : e \in EtiquetaSet}

\* what the file system and the PDF loader answer for one file in one run
EstadosArchivo == {"missing", "corrupt", "ok"}

\* loader.load() followed by text_splitter.split_documents(): the number of
\* fragments the document of a label yields.  The largest document exceeds
\* the k of the search, one document has no extractable text at all.
NumFragmentos(etiqueta) ==
    CASE etiqueta = paltas       -> MaxFrags
      [] etiqueta = pindal       -> 1
      [] etiqueta = catamayo     -> 2
      [] etiqueta = chaguarpamba -> 0

\* split_documents + the labelling loop: the fragments of one file, each
\* stamped with metadata fuente and archivo_origen
FragmentosEtiquetados(etiqueta, nombre_archivo_limpio) ==
    [i \in 1..NumFragmentos(etiqueta) |->
        [page_content   |-> <<"texto", etiqueta, i>>,
         fuente         |-> etiqueta,
         archivo_origen |-> nombre_archivo_limpio]]

\* mutant: a missing file ends the loop (break) instead of being skipped
RECURSIVE CargarPDOTs_Aborta(_, _, _)
CargarPDOTs_Aborta(i, archivos, todos_los_fragmentos) ==
    IF i > Len(Etiquetas) THEN todos_los_fragmentos
    ELSE LET etiqueta == Etiquetas[i]
             nombre_archivo_limpio == Strip(MAPA_DE_PDOTS(etiqueta))
         IN  IF archivos[nombre_archivo_limpio] # "ok"
             THEN todos_los_fragmentos
             ELSE CargarPDOTs_Aborta(i + 1, archivos,
                      todos_los_fragmentos \o
                      FragmentosEtiquetados(etiqueta, nombre_archivo_limpio))

\* FASE 1: the loop over MAPA_DE_PDOTS.items() from position i on, with
\* todos_los_fragmentos accumulated so far
RECURSIVE CargarPDOTs(_, _, _)
CargarPDOTs(i, archivos, todos_los_fragmentos) ==
    IF i > Len(Etiquetas) THEN todos_los_fragmentos
    ELSE LET etiqueta == Etiquetas[i]
             nombre_archivo_limpio == Strip(MAPA_DE_PDOTS(etiqueta))
         IN  IF archivos[nombre_archivo_limpio] = "missing"
             THEN CargarPDOTs(i + 1, archivos, todos_los_fragmentos)      \* continue
             ELSE IF archivos[nombre_archivo_limpio] = "corrupt"
             THEN CargarPDOTs(i + 1, archivos, todos_los_fragmentos)      \* except: continue
             ELSE CargarPDOTs(i + 1, archivos,
                      todos_los_fragmentos \o
                      FragmentosEtiquetados(etiqueta, nombre_archivo_limpio))

\* the directory "db_pdot" as the script sees it
Directorio == [existe |-> dirExiste, docs |-> store]

\* mutant: the old directory is left in place
BorrarBaseAntigua_NoBorra(dir) == dir

\* FASE 0: if os.path.exists(DIRECTORIO_PERSISTENTE): shutil.rmtree(...)
BorrarBaseAntigua(dir) ==
    IF dir.existe THEN [existe |-> FALSE, docs |-> {}] ELSE dir

\* FASE 3, Chroma.from_documents(..., persist_directory): creates the
\* directory when it is absent and adds every document, under a fresh id, to
\* whatever the directory already holds
FromDocuments(dir, documents, run) ==
    [existe |-> TRUE,
     docs   |-> dir.docs \cup
                {[page_content   |-> documents[i].page_content,
                  fuente         |-> documents[i].fuente,
                  archivo_origen |-> documents[i].archivo_origen,
                  id             |-> <<run, i>>] : i \in 1..Len(documents)}]

NoLeido == [a \in Archivos |-> "unread"]

\* mutant: the old directory is removed only when there is something to write
Script_BorraTarde(dir, key, archivos, run) ==
    IF ~Truthy(key)
    THEN [dir |-> dir, estado |-> "nokey", archivos |-> NoLeido, existia |-> FALSE]
    ELSE LET todos_los_fragmentos == CargarPDOTs(1, archivos, <<>>)
         IN  IF todos_los_fragmentos = <<>>
             THEN [dir |-> dir, estado |-> "nodocs", archivos |-> archivos,
                   existia |-> dir.existe]
             ELSE [dir      |-> FromDocuments(BorrarBaseAntigua(dir),
                                              todos_los_fragmentos, run),
                   estado   |-> "ok",
                   archivos |-> archivos,
                   existia  |-> dir.existe]

\* One whole run of the script, as a function of the directory it finds:
\* the directory it leaves, the way it ends, the files it consulted and
\* whether FASE 0 found a directory to remove
Script(dir, key, archivos, run) ==
    IF ~Truthy(key)
    THEN \* exit() before FASE 0
         [dir |-> dir, estado |-> "nokey", archivos |-> NoLeido, existia |-> FALSE]
    ELSE LET limpio == BorrarBaseAntigua(dir)
             todos_los_fragmentos == CargarPDOTs(1, archivos, <<>>)
         IN  IF todos_los_fragmentos = <<>>
             THEN \* exit() before FASE 3
                  [dir |-> limpio, estado |-> "nodocs", archivos |-> archivos,
                   existia |-> dir.existe]
             ELSE [dir      |-> FromDocuments(limpio, todos_los_fragmentos, run),
                   estado   |-> "ok",
                   archivos |-> archivos,
                   existia  |-> dir.existe]

\* The indexer is the offline stage: it is run while no service process
\* holds the store open.
Indexar(key, archivos) ==
    /\ idxRuns < MaxRuns
    /\ db = None
    /\ LET r == Script(Directorio, key, archivos, idxRuns + 1)
       IN  /\ dirExiste' = r.dir.existe
           /\ store' = r.dir.docs
           /\ lastRun' = [estado |-> r.estado, archivos |-> r.archivos,
                          existia |-> r.existia]
    /\ idxRuns' = idxRuns + 1
    /\ UNCHANGED <<svcVars, reqVars>>

\* os.getenv(...): absent, set but empty, set
KeyValues == {None, "", "clave"}

IndexarRun ==
    \E key \in KeyValues, archivos \in [Archivos -> EstadosArchivo] :
        Indexar(key, archivos)

--------------------------------------------------------------------------
(* main.py *)

\* k of db.similarity_search
K == 10

\* mutant: only one of the two keys is validated
ClavesValidas_SoloGoogle == Truthy(GOOGLE_API_KEY)

\* GOOGLE_API_KEY and OPENAI_API_KEY
ClavesValidas == Truthy(GOOGLE_API_KEY) /\ Truthy(OPENAI_API_KEY)

\* startup_event.  The three constructors are calls into external libraries
\* inside the try block: each either returns or raises.
\* Returns the globals it leaves, the components it constructed and the
\* exception it re-raises ("ok" when it returns normally).
StartupResult(embOk, chromaOk, llmOk) ==
    IF ~ClavesValidas
    THEN [db |-> db, llm |-> llm, construidos |-> {}, estado |-> "ValueError"]
    ELSE IF ~embOk
    THEN [db |-> db, llm |-> llm, construidos |-> {}, estado |-> "EmbeddingsError"]
    ELSE IF ~dirExiste
    THEN [db |-> db, llm |-> llm, construidos |-> {"embeddings"},
          estado |-> "FileNotFoundError"]
    ELSE IF ~chromaOk
    THEN [db |-> db, llm |-> llm, construidos |-> {"embeddings"},
          estado |-> "ChromaError"]
    ELSE IF ~llmOk
    THEN [db |-> "Chroma", llm |-> llm, construidos |-> {"embeddings", "Chroma"},
          estado |-> "ChatOpenAIError"]
    ELSE [db |-> "Chroma", llm |-> "ChatOpenAI",
          construidos |-> {"embeddings", "Chroma", "ChatOpenAI"},
          estado |-> "ok"]

StartupEvent(embOk, chromaOk, llmOk) ==
    /\ startup.estado = "pending"
    /\ LET r == StartupResult(embOk, chromaOk, llmOk)
       IN  /\ db' = r.db
           /\ llm' = r.llm
           /\ startup' = [estado |-> r.estado, construidos |-> r.construidos]
    /\ UNCHANGED <<GOOGLE_API_KEY, OPENAI_API_KEY, idxVars, reqVars>>

Startup == \E embOk, chromaOk, llmOk \in BOOLEAN : StartupEvent(embOk, chromaOk, llmOk)

\* The questions asked.  The vector search ranks the documents by their
\* distance to the question; the two questions rank them in opposite orders.
Preguntas == {"pregunta1", "pregunta2"}

Distancia(pregunta, doc) ==
    IF pregunta = "pregunta1" THEN doc.id[2] ELSE 0 - doc.id[2]

\* the k nearest documents of S, nearest first
RECURSIVE MasCercanos(_, _, _)
MasCercanos(S, pregunta, k) ==
    IF S = {} \/ k <= 0 THEN <<>>
    ELSE LET d == CHOOSE x \in S :
                      \A y \in S : Distancia(pregunta, x) <= Distancia(pregunta, y)
         IN  <<d>> \o MasCercanos(S \ {d}, pregunta, k - 1)

\* mutant: the search without the metadata filter
SimilaritySearch_SinFiltro(docs, pregunta, k, fuente) ==
    MasCercanos(docs, pregunta, k)

\* db.similarity_search(pregunta, k=..., filter={"fuente": ...})
SimilaritySearch(docs, pregunta, k, fuente) ==
    MasCercanos({d \in docs : d.fuente = fuente}, pregunta, k)

\* sep.join(parts)
RECURSIVE Join(_, _)
Join(sep, parts) ==
    IF parts = <<>> THEN <<>>
    ELSE IF Len(parts) = 1 THEN <<parts[1]>>
    ELSE <<parts[1], sep>> \o Join(sep, Tail(parts))

\* the f-string of the synthesis prompt: its literal parts are kept as
\* markers, its interpolated values as they are
PromptSintesis(entidad, pregunta, contexto_bruto) ==
    <<"Actua como un analista tecnico experto en el PDOT de la entidad: ", entidad,
      "documento de planificacion de ", entidad,
      "PREGUNTA DEL USUARIO:", pregunta,
      "TEXTO EN BRUTO EXTRAIDO (Fuente: ", entidad, contexto_bruto,
      "RESPUESTA SINTETISADA (Enfocada en ", entidad>>

\* llm.invoke(prompt).content: the generated text, a function of the prompt
Generar(prompt) == <<"respuesta", prompt>>

MensajeSinInformacion(entidad) ==
    <<"No se encontro informacion especifica para la entidad '", entidad,
      "' sobre la consulta realizada.">>

\* the names bound in the handler when line 108 is reached, and the module's
\* globals
Locals(solicitud, pregunta, entidad, docs_relevantes, contexto_bruto, prompt) ==
    [solicitud        |-> solicitud,
     pregunta         |-> pregunta,
     entidad          |-> entidad,
     docs_relevantes  |-> docs_relevantes,
     contexto_bruto   |-> contexto_bruto,
     prompt_sinitesis |-> prompt]

Globals == {"os", "traceback", "FastAPI", "HTTPException", "BaseModel", "ChatOpenAI",
            "GoogleGenerativeAIEmbeddings", "Chroma", "load_dotenv",
            "SolicitudContexto", "DIRECTORIO_DB", "GOOGLE_API_KEY", "OPENAI_API_KEY",
            "app", "db", "llm", "startup_event", "extraer_contexto", "read_root"}

\* evaluating a name: bound in the locals or the globals, or NameError
Bound(name, locals) == name \in DOMAIN locals \/ name \in Globals

Respuesta(status, contexto, detail) ==
    [status |-> status, contexto |-> contexto, detail |-> detail]

HTTPException(status_code, detail) == Respuesta(status_code, <<>>, detail)

\* mutant: the exception is reported without its traceback
Error500_SinTraza(e) ==
    [status |-> 500, contexto |-> <<>>, detail |-> <<"Error interno del servidor: ", e>>]

\* except Exception as e: HTTPException(500, f"Error interno del servidor:
\* {str(e)}\n{error_detallado}")
Error500(e) ==
    HTTPException(500, <<"Error interno del servidor: ", e, "\n", <<"traceback", e>>>>)

Traza(busquedas, generaciones, docs, prompt, excepcion) ==
    [busquedas |-> busquedas, generaciones |-> generaciones,
     docs |-> docs, prompt |-> prompt, excepcion |-> excepcion]

\* mutant: the label is lowercased but not stripped
Normalizar_SinStrip(entidadBruta) == Lower(entidadBruta)

\* entidad = solicitud.entidad.lower().strip()
Normalizar(entidadBruta) == Strip(Lower(entidadBruta))

\* mutant: unavailable only when both components are missing
NoDisponible_Ambos == db = None /\ llm = None

\* if db is None or llm is None
NoDisponible == db = None \/ llm = None

\* if not entidad
EntidadVacia(entidad) == entidad = <<>>

\* mutant: the empty result is not cut short
SinContexto_Nunca(docs_relevantes) == FALSE

\* if not docs_relevantes
SinContexto(docs_relevantes) == docs_relevantes = <<>>

\* the try block of extraer_contexto.  searchOk and llmOk say whether the two
\* external calls inside it return or raise.
Sintetizar(solicitud, pregunta, entidad, searchOk, llmOk) ==
    IF ~searchOk
    THEN [resp  |-> Error500("SearchError"),
          traza |-> Traza(1, 0, <<>>, <<>>, "SearchError")]
    ELSE LET docs_relevantes == SimilaritySearch(store, pregunta, K, entidad)
         IN  IF SinContexto(docs_relevantes)
             THEN [resp  |-> Respuesta(200, MensajeSinInformacion(entidad), <<>>),
                   traza |-> Traza(1, 0, <<>>, <<>>, "")]
             ELSE LET contexto_bruto ==
                          Join("\n\n---\n\n",
                               [i \in 1..Len(docs_relevantes) |->
                                   docs_relevantes[i].page_content])
                      prompt == PromptSintesis(entidad, pregunta, contexto_bruto)
                      locals == Locals(solicitud, pregunta, entidad,
                                       docs_relevantes, contexto_bruto, prompt)
                  IN  IF ~Bound("prompt_sintesis", locals)
                      THEN [resp  |-> Error500("NameError"),
                            traza |-> Traza(1, 0, docs_relevantes, prompt, "NameError")]
                      ELSE IF ~llmOk
                      THEN [resp  |-> Error500("LLMError"),
                            traza |-> Traza(1, 1, docs_relevantes, prompt, "LLMError")]
                      ELSE [resp  |-> Respuesta(200, Generar(locals["prompt_sintesis"]), <<>>),
                            traza |-> Traza(1, 1, docs_relevantes, prompt, "")]

\* extraer_contexto: the response and what the handler did
Handler(pregunta, entidadBruta, searchOk, llmOk) ==
    LET entidad == Normalizar(entidadBruta)
    IN  IF NoDisponible
        THEN [resp  |-> HTTPException(503, <<"Servicio no disponible">>),
              traza |-> Traza(0, 0, <<>>, <<>>, "")]
        ELSE IF EntidadVacia(entidad)
        THEN [resp  |-> HTTPException(400, <<"Error: El campo 'entidad' no puede estar vacio.">>),
              traza |-> Traza(0, 0, <<>>, <<>>, "")]
        ELSE Sintetizar(entidadBruta, pregunta, entidad, searchOk, llmOk)

\* request bodies: entidad as the client typed it
Entidades ==
    { <<>>, <<"\t", " ", "\n">>,
      paltas, <<" ","P","A","L","T","A","S"," ">>, pindal,
      <<"C","a","t","a","m","a","y","o","\n">>, chaguarpamba,
      <<"l","o","j","a">>, <<"p","a","l"," ","t","a","s">> }

ExtraerContexto(pregunta, entidadBruta, searchOk, llmOk) ==
    /\ LET r == Handler(pregunta, entidadBruta, searchOk, llmOk)
       IN  /\ resp' = r.resp
           /\ traza' = r.traza
    /\ req' = [pregunta |-> pregunta, entidad |-> entidadBruta,
               db |-> db, llm |-> llm, startup |-> startup.estado]
    /\ UNCHANGED <<idxVars, svcVars>>

Request ==
    \E pregunta \in Preguntas, entidadBruta \in Entidades, searchOk, llmOk \in BOOLEAN :
        ExtraerContexto(pregunta, entidadBruta, searchOk, llmOk)

--------------------------------------------------------------------------
(* Specifications *)

SinSolicitud ==
    /\ req = [pregunta |-> "", entidad |-> <<>>,
              db |-> None, llm |-> None, startup |-> "pending"]
    /\ resp = Respuesta(0, <<>>, <<>>)
    /\ traza = Traza(0, 0, <<>>, <<>>, "")

ServicioImportado ==
    /\ GOOGLE_API_KEY \in KeyValues
    /\ OPENAI_API_KEY \in KeyValues
    /\ db = None
    /\ llm = None
    /\ startup = [estado |-> "pending", construidos |-> {}]

\* The whole system: no store yet, indexer runs, the start of the service
\* and requests in any order.  The two specifications below are the parts
\* of it the properties are checked under.
Init ==
    /\ dirExiste = FALSE
    /\ store = {}
    /\ idxRuns = 0
    /\ lastRun = [estado |-> "none", archivos |-> NoLeido, existia |-> FALSE]
    /\ ServicioImportado
    /\ SinSolicitud

Next == IndexarRun \/ Startup \/ Request

Spec == Init /\ [][Next]_vars

\* The indexer and the start of the service: no store yet, any number of
\* indexer runs (up to MaxRuns), the service started at any point.
InitIndexador == Init

NextIndexador == IndexarRun \/ Startup

SpecIndexador == InitIndexador /\ [][NextIndexador]_vars

\* The service over any directory one run of the indexer leaves (every
\* subset of the files present, the key of the run set or not).
InitServicio ==
    /\ \E key \in {None, "clave"}, archivos \in [Archivos -> {"missing", "ok"}] :
          LET r == Script([existe |-> FALSE, docs |-> {}], key, archivos, 1)
          IN  /\ dirExiste = r.dir.existe
              /\ store = r.dir.docs
              /\ lastRun = [estado |-> r.estado, archivos |-> r.archivos,
                            existia |-> r.existia]
    /\ idxRuns = 1
    /\ ServicioImportado
    /\ SinSolicitud

NextServicio == Startup \/ Request

SpecServicio == InitServicio /\ [][NextServicio]_vars

--------------------------------------------------------------------------
(* Properties of the query service (SpecServicio) *)

\* a request has been handled
Atendida == resp.status # 0

\* the request was handled by a service with both components loaded
AtendidaInicializado == Atendida /\ req.db # None /\ req.llm # None

EntidadPedida == Strip(Lower(req.entidad))

Separador == "\n\n---\n\n"

\* the page contents of the documents, joined as the handler joins them
RECURSIVE Contenidos(_)
Contenidos(docs) ==
    IF docs = <<>> THEN <<>>
    ELSE IF Len(docs) = 1 THEN <<docs[1].page_content>>
    ELSE <<docs[1].page_content, Separador>> \o Contenidos(Tail(docs))

\* C1: after a successful startup, a request with a non-empty entidad whose
\* filtered search returns at least one chunk (and whose external calls do
\* not fail) invokes the generation model exactly once, with the prompt
\* built from the question and the joined chunk texts, and is answered
\* HTTP 200 with the generated text as contexto.
C1_GeneraYResponde ==
    (Atendida /\ req.startup = "ok" /\ traza.docs # <<>>
        /\ traza.excepcion \notin {"SearchError", "LLMError"})
    => /\ traza.generaciones = 1
       /\ resp.status = 200
       /\ resp.contexto =
            <<"respuesta",
              PromptSintesis(EntidadPedida, req.pregunta, Contenidos(traza.docs))>>

\* C2: the chunks placed in the prompt context are at most 10, every one is
\* a document of the store whose fuente is the entidad of the request,
\* lowercased and stripped, and whose file is the file mapped to that label;
\* the context of the prompt is made of their texts and of nothing else.
C2_ContextoFiltrado ==
    /\ Len(traza.docs) <= 10
    /\ \A i \in 1..Len(traza.docs) :
          /\ traza.docs[i] \in store
          /\ traza.docs[i].fuente = EntidadPedida
          /\ EntidadPedida \in EtiquetaSet
          /\ traza.docs[i].archivo_origen = Strip(MAPA_DE_PDOTS(EntidadPedida))
          /\ \A j \in 1..Len(traza.docs) : traza.docs[i] = traza.docs[j] => i = j
    /\ traza.docs # <<>> => traza.prompt[9] = Contenidos(traza.docs)

\* a request for a label with more than 10 chunks, in a store that also holds
\* chunks of other labels, got its 10 chunks
C2_Witness ==
    /\ Len(traza.docs) = 10
    /\ req.entidad # EntidadPedida
    /\ Cardinality({d \in store : d.fuente = EntidadPedida}) > 10
    /\ \E d \in store : d.fuente # EntidadPedida

\* C3: a request with a non-empty entidad, handled by an initialised service
\* whose search returns, for which the store holds no chunk with that label
\* (labels outside the static map included) is answered HTTP 200 with the
\* fixed "no information" message, and the generation model is not invoked.
C3_SinInformacion ==
    (AtendidaInicializado /\ EntidadPedida # <<>>
        /\ traza.excepcion # "SearchError"
        /\ ~\E d \in store : d.fuente = EntidadPedida)
    => /\ resp.status = 200
       /\ resp.contexto =
            <<"No se encontro informacion especifica para la entidad '", EntidadPedida,
              "' sobre la consulta realizada.">>
       /\ resp.detail = <<>>
       /\ traza.generaciones = 0

\* a label outside the static map was asked for while the store holds chunks
C3_Witness ==
    /\ AtendidaInicializado
    /\ EntidadPedida \notin EtiquetaSet
    /\ EntidadPedida # <<>>
    /\ store # {}
    /\ resp.status = 200
    /\ traza.busquedas = 1

\* C4 as stated: a request whose entidad is empty once stripped is answered
\* HTTP 400 whatever the state of the service, and neither the search nor
\* the generation model is invoked.
C4_Original ==
    (Atendida /\ EntidadPedida = <<>>)
    => /\ resp.status = 400
       /\ traza.busquedas = 0
       /\ traza.generaciones = 0

\* C4 amended: such a request is answered HTTP 400 when db and llm are both
\* loaded and HTTP 503 when either is None (that check comes first); in both
\* cases neither the search nor the generation model is invoked.
C4_EntidadVacia ==
    (Atendida /\ EntidadPedida = <<>>)
    => /\ resp.status = (IF req.db = None \/ req.llm = None THEN 503 ELSE 400)
       /\ traza.busquedas = 0
       /\ traza.generaciones = 0

\* a whitespace-only entidad was rejected by an initialised service
C4_Witness ==
    /\ AtendidaInicializado
    /\ req.entidad # <<>>
    /\ EntidadPedida = <<>>
    /\ resp.status = 400

\* C7: an exception raised in the search, prompt-building or generation
\* steps becomes an HTTP 500 whose detail embeds the exception message and
\* the traceback text; it is answered with no other status, and the service
\* keeps both components, so later requests are still served.
C7_Error500 ==
    /\ traza.excepcion # ""
       => /\ resp.status = 500
          /\ resp.contexto = <<>>
          /\ Len(resp.detail) = 4
          /\ resp.detail[2] = traza.excepcion
          /\ resp.detail[4] = <<"traceback", traza.excepcion>>
          /\ db # None /\ llm # None
    /\ (AtendidaInicializado /\ resp.status \notin {200, 400})
       => (resp.status = 500 /\ traza.excepcion # "")

\* the search raised and the request was answered 500
C7_Witness ==
    /\ traza.excepcion = "SearchError"
    /\ resp.status = 500
    /\ traza.busquedas = 1

\* C8: when GOOGLE_API_KEY or OPENAI_API_KEY is absent or empty, startup_event
\* re-raises the ValueError, db and llm stay None and no embeddings client,
\* store or LLM is constructed.
C8_ClavesFaltantes ==
    (GOOGLE_API_KEY \in {None, ""} \/ OPENAI_API_KEY \in {None, ""})
    => /\ db = None
       /\ llm = None
       /\ startup.construidos = {}
       /\ startup.estado \in {"pending", "ValueError"}

\* startup ran with the Google key set and the OpenAI key empty
C8_Witness ==
    /\ GOOGLE_API_KEY = "clave"
    /\ OPENAI_API_KEY = ""
    /\ dirExiste
    /\ startup.estado = "ValueError"

\* C9: a request handled while db or llm is None is answered HTTP 503 and
\* triggers neither a search nor a generation; once startup_event has
\* completed normally both are non-None, and no request handled after it is
\* answered 503.
C9_Disponibilidad ==
    /\ (Atendida /\ (req.db = None \/ req.llm = None))
       => /\ resp.status = 503
          /\ traza.busquedas = 0
          /\ traza.generaciones = 0
    /\ startup.estado = "ok" => (db # None /\ llm # None)
    /\ (Atendida /\ req.startup = "ok")
       => (req.db # None /\ req.llm # None /\ resp.status # 503)

\* a request was refused with 503 before startup_event ran, and startup_event
\* has since completed normally with both components loaded
C9_Witness ==
    /\ Atendida
    /\ req.startup = "pending"
    /\ req.llm = None
    /\ resp.status = 503
    /\ traza.busquedas = 0
    /\ startup.estado = "ok"
    /\ db # None
    /\ llm # None

--------------------------------------------------------------------------
(* Properties of the indexer (SpecIndexador) *)

\* the last run got past the key check
PasoLaClave == lastRun.estado \in {"ok", "nodocs"}

\* the labels whose file the last run found and loaded
Cargadas == {e \in EtiquetaSet : lastRun.archivos[Strip(MAPA_DE_PDOTS(e))] = "ok"}

\* label and position of every fragment the last run produced
Producidos == {p \in Cargadas \X (1..MaxFrags) : p[2] <= NumFragmentos(p[1])}

\* C5: after a run that gets past the key check, whatever the previous runs
\* wrote, the store holds exactly the chunks that run produced, each once,
\* and no chunk written by an earlier run.
C5_SoloUltimaCorrida ==
    PasoLaClave
    => /\ \A d \in store : d.id[1] = idxRuns
       /\ {<<d.fuente, d.page_content[3]>> : d \in store} = Producidos
       /\ Cardinality(store) = Cardinality(Producidos)

\* a second run wrote a store over the store of an earlier run
C5_Witness ==
    /\ idxRuns >= 2
    /\ lastRun.estado = "ok"
    /\ lastRun.existia
    /\ Cardinality(store) > 1

\* C6: a label whose file is missing or fails to load is skipped and the
\* run goes on with the remaining labels; the store written holds the chunks
\* of exactly the labels whose files were found and loaded.
C6_SaltaFaltantes ==
    PasoLaClave
    => /\ \A e \in EtiquetaSet :
             LET suyos == {d \in store : d.fuente = e}
             IN  /\ e \notin Cargadas => suyos = {}
                 /\ e \in Cargadas =>
                      /\ Cardinality(suyos) = NumFragmentos(e)
                      /\ \A d \in suyos : d.archivo_origen = Strip(MAPA_DE_PDOTS(e))
       /\ \A d \in store : d.fuente \in Cargadas
       /\ lastRun.estado = "ok" <=> (\E e \in Cargadas : NumFragmentos(e) > 0)

\* the first file was missing, the second failed to load, and the run
\* indexed the third
C6_Witness ==
    /\ lastRun.estado = "ok"
    /\ lastRun.archivos[Strip(MAPA_DE_PDOTS(paltas))] = "missing"
    /\ lastRun.archivos[Strip(MAPA_DE_PDOTS(pindal))] = "corrupt"
    /\ \E d \in store : d.fuente = catamayo

\* C10: a run that gets past the key check but processes no document ends
\* with the store directory absent; a service started while the directory is
\* absent fails at startup, with the missing-directory error once its keys
\* are validated and its embeddings client built, and loads neither db nor
\* llm; a run that exits on the missing key leaves the directory as it was,
\* and every other run changes an existing directory.
C10_SinDocumentos ==
    /\ [](lastRun.estado = "nodocs" => (~dirExiste /\ store = {}))
    /\ [][(startup.estado = "pending" /\ startup'.estado # "pending" /\ ~dirExiste)
            => /\ startup'.estado \in {"ValueError", "EmbeddingsError", "FileNotFoundError"}
               /\ db' = None
               /\ llm' = None
               /\ "embeddings" \in startup'.construidos
                    => startup'.estado = "FileNotFoundError"]_vars
    /\ [][idxRuns' = idxRuns + 1
            => /\ lastRun'.estado = "nokey"
                    => (dirExiste' = dirExiste /\ store' = store)
               /\ (lastRun'.estado # "nokey" /\ dirExiste)
                    => (dirExiste' # dirExiste \/ store' # store)]_vars

\* a run found a store, removed it and processed no document, and the
\* service started afterwards failed on the missing directory
C10_Witness ==
    /\ lastRun.estado = "nodocs"
    /\ lastRun.existia
    /\ ~dirExiste
    /\ startup.estado = "FileNotFoundError"

====
